---- MODULE Spec2Model ----
(***************************************************************************)
(* A model of src/turing.rs: a finite 2D Turing machine on a toroidal     *)
(* tape (TuringMachine::new, random_table, step) and the driver loop of   *)
(* main, which steps the machine, writes a frame every 'stops' steps and  *)
(* installs a new random table and a zeroed tape when nothing changed or  *)
(* when 'count' steps have run.                                           *)
(***************************************************************************)
EXTENDS Integers, Sequences, FiniteSets, TLC

VARIABLES
  width, height,      \* machine.width, machine.height (uint)
  states, symbols,    \* machine.states, machine.symbols (u8)
  position, state,    \* machine.position (uint), machine.state (u8)
  table,              \* machine.table: Vec<(u8, u8, Direction)>
  tape,               \* machine.tape: Vec<u8>
  image,              \* machine.image: Vec<u8>
  cfgSymbols,         \* the configured turing.symbols (i64), as load_palette reads it
  count, stops,       \* main: reset_steps, picture_steps (u32)
  i, change,          \* main: loop counter and change flag
  pc,                 \* main: position in the loop body
  ret,                \* value returned by the most recent step()
  moved,              \* history: move_direction of the most recent step()
  changedSinceReset,  \* history: some step() since the last reset returned true
  sinceFrame,         \* history: step() calls since the last write_image call,
                      \*   counted up to stops + 1
  sinceMark,          \* history: step() calls since the last write_image call
                      \*   or reset, whichever came last
  sinkError           \* history: a write_image call has returned an error

vars == <<width, height, states, symbols, position, state, table, tape,
          count, stops, i, change, pc, ret, moved, changedSinceReset,
          sinceFrame, sinceMark, image, cfgSymbols, sinkError>>

machineCfg == <<width, height, states, symbols, count, stops, cfgSymbols>>

----------------------------------------------------------------------------
(* Bounds of the model. *)

\* largest configured turing.width
MaxWidth == 3
\* largest configured turing.height
MaxHeight == 2
\* largest tape, width * height cells
MaxCells == 6
\* largest configured turing.reset_steps
MaxResetSteps == 3
\* largest configured turing.picture_steps
MaxPictureSteps == 2

\* largest width of the scenario grid of one row
MaxScenarioWidth == 4
\* number of steps the scenario is run for
MaxScenarioSteps == 16
\* largest width and height of the configurations checked at startup
MaxStartupSide == 1

\* The configured (states, symbols) pairs checked at startup: small machines,
\* zero-valued counts, and symbol counts above the palette's length, some of
\* which are small again once cast to u8.
StartupMachines ==
  {<<1, 1>>, <<1, 2>>, <<2, 1>>,
   <<0, 1>>, <<1, 0>>, <<0, 0>>, <<0, 2>>,
   <<0, 11>>, <<1, 256>>, <<1, 257>>, <<1, 258>>, <<2, 257>>}

\* The configured (states, symbols) pairs: the small machines, and one whose
\* product states*symbols does not fit the u8 it is computed in.
Machines == {<<1, 1>>, <<1, 2>>, <<2, 1>>, <<128, 2>>}

----------------------------------------------------------------------------
(* Types of the program. *)

\* enum Direction
Direction == {"NORTH", "EAST", "SOUTH", "WEST"}

\* number of values of a u8
U8Modulus == 256

\* u8 arithmetic wraps around
U8(n) == n % U8Modulus

\* load_palette: the number of colors of the palette
PaletteLen == 10

\* Colors defined as arrays of [R,G,B]
BLACK == <<0, 0, 0>>
WHITE == <<255, 255, 255>>
LIGHT_GRAY == <<170, 170, 170>>
GRAY == <<85, 85, 85>>
RED == <<255, 0, 0>>
GREEN == <<0, 255, 0>>
BLUE == <<0, 0, 255>>
CYAN == <<0, 255, 255>>
MAGENTA == <<255, 0, 255>>
YELLOW == <<255, 255, 0>>

\* load_palette: the colors of the symbols 0, 1, 2, ...
Palette == <<BLACK, RED, GREEN, BLUE, WHITE, CYAN, MAGENTA, YELLOW,
             LIGHT_GRAY, GRAY>>

----------------------------------------------------------------------------
(* TuringMachine *)

\* A fill with the symbol 1 instead of 0.
ZeroTapeOnes(len) == [k \in 1..len |-> 1]

\* Vec::from_elem(len, 0u8)
ZeroTape(len) == [k \in 1..len |-> 0]

\* random_table: the length of the table, a u8 product cast to uint
TableLen(nstates, nsymbols) == U8(nstates * nsymbols)

\* A generator whose write_symbol range includes its upper end.
RandomTableInclusive(nstates, nsymbols) ==
  [1..TableLen(nstates, nsymbols) ->
     (0..(nstates - 1)) \X (0..nsymbols) \X Direction]

\* random_table: every table the random generator can produce
RandomTable(nstates, nsymbols) ==
  [1..TableLen(nstates, nsymbols) ->
     (0..(nstates - 1)) \X (0..(nsymbols - 1)) \X Direction]

\* Vec::from_elem(width * height * 3, 0u8)
ZeroImage(len) == [k \in 1..(len * 3) |-> 0]

\* A write that lands on the cell after the head.
WriteTapeNextCell(tp, pos, write_symbol) ==
  [tp EXCEPT ![((pos + 1) % Len(tp)) + 1] = write_symbol]

\* step: *self.tape.get_mut(self.position) = write_symbol
WriteTape(tp, pos, write_symbol) == [tp EXCEPT ![pos + 1] = write_symbol]

\* step: the index of the table entry read, computed in u8
LookupIndex(nstates, curr_symbol, st) == U8(U8(nstates * curr_symbol) + st)

\* A step that reports a change when it writes the symbol it read.
ChangedInverted(write_symbol, curr_symbol) == write_symbol = curr_symbol

\* A step that reports a change whenever it writes a non-zero symbol.
ChangedNonZero(write_symbol, curr_symbol) == write_symbol # 0

\* step: whether the step changes the picture
Changed(write_symbol, curr_symbol) == write_symbol # curr_symbol

\* A move that runs off the bottom edge instead of wrapping.
MoveNoWrapSouth(pos, w, h, move_direction) ==
  LET x == pos % w
      y == pos \div w
      nx == CASE move_direction = "EAST" -> IF x + 1 >= w THEN 0 ELSE x + 1
              [] move_direction = "WEST" -> IF x = 0 THEN w - 1 ELSE x - 1
              [] OTHER -> x
      ny == CASE move_direction = "NORTH" -> IF y = 0 THEN h - 1 ELSE y - 1
              [] move_direction = "SOUTH" -> y + 1
              [] OTHER -> y
  IN  ny * w + nx

\* A move that runs off the right edge instead of wrapping.
MoveNoWrapEast(pos, w, h, move_direction) ==
  LET x == pos % w
      y == pos \div w
      nx == CASE move_direction = "EAST" -> x + 1
              [] move_direction = "WEST" -> IF x = 0 THEN w - 1 ELSE x - 1
              [] OTHER -> x
      ny == CASE move_direction = "NORTH" -> IF y = 0 THEN h - 1 ELSE y - 1
              [] move_direction = "SOUTH" -> IF y + 1 >= h THEN 0 ELSE y + 1
              [] OTHER -> y
  IN  ny * w + nx

\* A move with EAST and WEST exchanged.
MoveMirrored(pos, w, h, move_direction) ==
  LET x == pos % w
      y == pos \div w
      nx == CASE move_direction = "WEST" -> IF x + 1 >= w THEN 0 ELSE x + 1
              [] move_direction = "EAST" -> IF x = 0 THEN w - 1 ELSE x - 1
              [] OTHER -> x
      ny == CASE move_direction = "NORTH" -> IF y = 0 THEN h - 1 ELSE y - 1
              [] move_direction = "SOUTH" -> IF y + 1 >= h THEN 0 ELSE y + 1
              [] OTHER -> y
  IN  ny * w + nx

\* step: the head position after a move in move_direction
Move(pos, w, h, move_direction) ==
  LET x == pos % w
      y == pos \div w
      nx == CASE move_direction = "EAST" -> IF x + 1 >= w THEN 0 ELSE x + 1
              [] move_direction = "WEST" -> IF x = 0 THEN w - 1 ELSE x - 1
              [] OTHER -> x
      ny == CASE move_direction = "NORTH" -> IF y = 0 THEN h - 1 ELSE y - 1
              [] move_direction = "SOUTH" -> IF y + 1 >= h THEN 0 ELSE y + 1
              [] OTHER -> y
  IN  ny * w + nx

\* A buffer fill that leaves the pixels of symbol 0 as they are.
RECURSIVE WriteImageSkipZeroFrom(_, _, _)
WriteImageSkipZeroFrom(tp, img, k) ==
  IF k > Len(tp) THEN img
  ELSE LET color == Palette[tp[k] + 1]
           n == 3 * (k - 1)
       IN  WriteImageSkipZeroFrom(tp,
             IF tp[k] = 0 THEN img
             ELSE [img EXCEPT ![n + 3] = color[1], ![n + 2] = color[2],
                              ![n + 1] = color[3]],
             k + 1)

\* write_image: the loop over the tape from its k-th cell on, which writes
\* the color of each cell into the buffer at i+2, i+1, i+0 with i = 3(k-1)
RECURSIVE WriteImageFrom(_, _, _)
WriteImageFrom(tp, img, k) ==
  IF k > Len(tp) THEN img
  ELSE LET color == Palette[tp[k] + 1]
           n == 3 * (k - 1)
       IN  WriteImageFrom(tp,
             [img EXCEPT ![n + 3] = color[1], ![n + 2] = color[2],
                         ![n + 1] = color[3]],
             k + 1)

\* write_image: the buffer handed to out.write
WriteImage(tp, img) == WriteImageFrom(tp, img, 1)

----------------------------------------------------------------------------
(* main *)

\* An error test that lets a failed write pass.
IsErrIgnored(written) == FALSE

\* main: machine.write_image(..).is_err()
IsErr(written) == ~written

\* A palette test made against the machine's u8 symbol count.
PaletteTooSmallForMachine(nconfigured, nsymbols) == Len(Palette) < nsymbols

\* load_palette: palette.len() < get(config, "turing.symbols") as uint
PaletteTooSmall(nconfigured, nsymbols) == Len(Palette) < nconfigured

\* A frame test made against the counter before its increment.
PictureDueBeforeIncrement(n, nstops) == (n - 1) % nstops = 0 /\ n > 1

\* main: a frame is written after this iteration's step
PictureDue(n, nstops) == n % nstops = 0

\* A budget test that lets one more step through.
BudgetExceeded(n, ncount) == n > ncount

\* main: the step budget of the epoch is used up
BudgetExhausted(n, ncount) == n >= ncount

\* TuringMachine::new and the locals of main before the loop
Init ==
  /\ width \in 1..MaxWidth
  /\ height \in 1..MaxHeight
  /\ width * height <= MaxCells
  /\ \E m \in Machines : states = m[1] /\ symbols = m[2]
  /\ count \in 1..MaxResetSteps
  /\ stops \in 1..MaxPictureSteps
  /\ position = 0
  /\ state = 0
  /\ table \in RandomTable(states, symbols)
  /\ tape = ZeroTape(width * height)
  /\ image = ZeroImage(width * height)
  /\ cfgSymbols = symbols
  /\ sinkError = FALSE
  /\ i = 0
  /\ change = FALSE
  /\ pc = "step"
  /\ ret = FALSE
  /\ moved = "NONE"
  /\ changedSinceReset = FALSE
  /\ sinceFrame = 0
  /\ sinceMark = 0

\* change = machine.step() || change; i += 1;
\* a failed index into the tape or the table ends the task
Step ==
  /\ pc = "step"
  /\ IF position >= Len(tape)
       \/ LookupIndex(states, tape[position + 1], state) >= Len(table)
     THEN /\ pc' = "panicked"
          /\ UNCHANGED <<position, state, tape, i, change, ret, moved,
                         changedSinceReset, sinceFrame, sinceMark>>
     ELSE LET curr_symbol == tape[position + 1]
              entry == table[LookupIndex(states, curr_symbol, state) + 1]
              next_state == entry[1]
              write_symbol == entry[2]
              move_direction == entry[3]
          IN  /\ tape' = WriteTape(tape, position, write_symbol)
              /\ ret' = Changed(write_symbol, curr_symbol)
              /\ state' = next_state
              /\ position' = Move(position, width, height, move_direction)
              /\ moved' = move_direction
              /\ change' = (ret' \/ change)
              /\ changedSinceReset' = (ret' \/ changedSinceReset)
              /\ i' = i + 1
              /\ sinceFrame' = IF sinceFrame > stops THEN sinceFrame
                               ELSE sinceFrame + 1
              /\ sinceMark' = sinceMark + 1
              /\ pc' = "picture"
  /\ UNCHANGED <<machineCfg, table, image, sinkError>>

\* if i % stops == 0 { write_image or fail; if !change { new machine } }
Picture ==
  /\ pc = "picture"
  /\ IF PictureDue(i, stops)
     THEN \E written \in BOOLEAN :
            /\ image' = WriteImage(tape, image)
            /\ sinkError' = (sinkError \/ ~written)
            /\ IF IsErr(written)
               THEN /\ pc' = "failed"
                    /\ UNCHANGED <<table, tape, i, changedSinceReset,
                                   sinceFrame, sinceMark>>
               ELSE
                 /\ sinceFrame' = 0
                 /\ sinceMark' = 0
                 /\ pc' = "budget"
                 /\ IF ~change
                    THEN /\ table' \in RandomTable(states, symbols)
                         /\ tape' = ZeroTape(width * height)
                         /\ i' = 0
                         /\ changedSinceReset' = FALSE
                    ELSE UNCHANGED <<table, tape, i, changedSinceReset>>
     ELSE /\ pc' = "budget"
          /\ UNCHANGED <<table, tape, i, changedSinceReset, sinceFrame,
                         sinceMark, image, sinkError>>
  /\ UNCHANGED <<machineCfg, position, state, change, ret, moved>>

\* if i >= count { new machine }
Budget ==
  /\ pc = "budget"
  /\ IF BudgetExhausted(i, count)
     THEN /\ table' \in RandomTable(states, symbols)
          /\ tape' = ZeroTape(width * height)
          /\ i' = 0
          /\ changedSinceReset' = FALSE
          /\ sinceMark' = 0
     ELSE UNCHANGED <<table, tape, i, changedSinceReset, sinceMark>>
  /\ pc' = "step"
  /\ UNCHANGED <<machineCfg, position, state, change, ret, moved, sinceFrame,
                 image, sinkError>>

Next == Step \/ Picture \/ Budget

Spec == Init /\ [][Next]_vars

----------------------------------------------------------------------------
(* main from its start: the configuration is read, the machine built, and *)
(* load_palette is about to be called.                                    *)

\* main, lines 202-214: any configuration, zero-valued ones included;
\* machine.symbols is the configured value cast to u8
InitStartup ==
  /\ width \in 0..MaxStartupSide
  /\ height \in 0..MaxStartupSide
  /\ \E m \in StartupMachines :
       /\ states = m[1]
       /\ cfgSymbols = m[2]
       /\ symbols = U8(m[2])
  /\ count \in 1..MaxResetSteps
  /\ stops \in 1..MaxPictureSteps
  /\ position = 0
  /\ state = 0
  /\ table \in RandomTable(states, symbols)
  /\ tape = ZeroTape(width * height)
  /\ image = ZeroImage(width * height)
  /\ sinkError = FALSE
  /\ i = 0
  /\ change = FALSE
  /\ pc = "palette"
  /\ ret = FALSE
  /\ moved = "NONE"
  /\ changedSinceReset = FALSE
  /\ sinceFrame = 0
  /\ sinceMark = 0

\* let palette = load_palette(&config): fails when the palette is too small
LoadPalette ==
  /\ pc = "palette"
  /\ pc' = IF PaletteTooSmall(cfgSymbols, symbols) THEN "palette_failed"
           ELSE "step"
  /\ UNCHANGED <<machineCfg, position, state, table, tape, image, i, change,
                 ret, moved, changedSinceReset, sinceFrame, sinceMark,
                 sinkError>>

NextStartup == LoadPalette \/ Step \/ Picture \/ Budget

SpecStartup == InitStartup /\ [][NextStartup]_vars

----------------------------------------------------------------------------
(* The scenario machine: one row of cells, one state, two symbols, and a  *)
(* table that writes 1 and moves EAST whatever it reads; run by the loop  *)
(* of main with a step budget and a frame interval it does not reach.     *)

\* the table of the scenario
ScenarioTable == <<<<0, 1, "EAST">>, <<0, 1, "EAST">>>>

InitScenario ==
  /\ width \in 1..MaxScenarioWidth
  /\ height = 1
  /\ states = 1
  /\ symbols = 2
  /\ cfgSymbols = 2
  /\ count = MaxScenarioSteps + 1
  /\ stops = MaxScenarioSteps + 1
  /\ position = 0
  /\ state = 0
  /\ table = ScenarioTable
  /\ tape = ZeroTape(width * height)
  /\ image = ZeroImage(width * height)
  /\ sinkError = FALSE
  /\ i = 0
  /\ change = FALSE
  /\ pc = "step"
  /\ ret = FALSE
  /\ moved = "NONE"
  /\ changedSinceReset = FALSE
  /\ sinceFrame = 0
  /\ sinceMark = 0

\* the loop of main, stopped after MaxScenarioSteps steps
NextScenario == (i < MaxScenarioSteps /\ Step) \/ Picture \/ Budget

SpecScenario == InitScenario /\ [][NextScenario]_vars

----------------------------------------------------------------------------
(* Properties *)

\* A step() of the machine: it returned, and main is at the frame test.
StepTaken == pc = "step" /\ pc' = "picture"

\* A reset by the driver loop: the step counter goes back to 0.
ResetTaken == pc \in {"picture", "budget"} /\ i # 0 /\ i' = 0

\* write_image is called by this step of main (and succeeds or fails).
FrameWritten == pc = "picture" /\ (sinceFrame' = 0 \/ pc' = "failed")

\* C1: after any number of step() calls and driver resets the head position
\* satisfies 0 <= position < width*height.
C1_PositionInBounds ==
  /\ 0 <= position
  /\ position < width * height
  /\ position < Len(tape)

\* The head has wrapped to the last cell of a grid with more than one row
\* and column, in an epoch that follows a driver reset.
C1_Witness ==
  /\ pc = "picture"
  /\ width > 1 /\ height > 1
  /\ position = width * height - 1
  /\ moved \in {"NORTH", "WEST"}
  /\ sinceFrame > i

\* C2: whenever the step counter is a non-zero multiple of picture_steps the
\* driver writes a frame and resets the machine if and only if no step()
\* since the last reset of either kind (or construction) returned true:
\* the frame test does not reset when such a step has changed the tape, and
\* an iteration that wrote a frame with no such change ends with the machine
\* reset.
C2_ResetIffNoChangeSinceReset ==
  /\ [][(pc = "picture" /\ PictureDue(i, stops) /\ pc' = "budget"
           /\ changedSinceReset) => ~ResetTaken]_vars
  /\ [][(pc = "budget" /\ sinceFrame = 0 /\ ~changedSinceReset)
          => i' = 0]_vars

\* C3: immediately after every reset by the driver loop the machine's
\* position and state are 0, as TuringMachine::new sets them.
C3_ResetRestoresHead ==
  [][ResetTaken => (position' = 0 /\ state' = 0)]_vars

\* C4: the step counter never exceeds reset_steps, it is below reset_steps
\* when an iteration starts, and the iteration in which it reaches
\* reset_steps resets the epoch (a generated table, a zeroed tape, counter 0)
\* whether or not a step changed the tape: at the frame test the counter is
\* left at reset_steps or the no-change reset is taken, and the budget test
\* then resets.
C4_BudgetReset ==
  /\ [](i <= count /\ (pc = "step" => i < count))
  /\ [][(pc = "picture" /\ i = count /\ pc' = "budget")
          => (i' = count \/ ResetTaken)]_vars
  /\ [][(pc = "budget" /\ i = count)
          => /\ ResetTaken
             /\ table' \in RandomTable(states, symbols)
             /\ tape' = ZeroTape(width * height)
             /\ pc' = "step"]_vars

\* The budget reset has just been taken in an epoch whose last step changed
\* the tape, with no frame written in that iteration.
C4_Witness ==
  /\ pc = "step" /\ i = 0
  /\ ret /\ change /\ ~changedSinceReset
  /\ sinceFrame > 0 /\ sinceMark = 0
  /\ tape = ZeroTape(width * height)

\* C5 as stated: write_image is called exactly when picture_steps step()
\* calls have been made since the previous write_image call (or the start),
\* across epoch resets.
C5_FramesEveryPictureSteps ==
  [][pc = "picture" => (FrameWritten <=> sinceFrame = stops)]_vars

\* C5 amended: write_image is called exactly when picture_steps step() calls
\* have been made since the later of the previous write_image call and the
\* previous reset (the frame count restarts with the epoch); when reset_steps
\* is a multiple of picture_steps, that is exactly picture_steps step() calls
\* after the previous write_image call.
C5_FramesEveryPictureStepsOfEpoch ==
  [][pc = "picture"
       => /\ FrameWritten <=> sinceMark = stops
          /\ count % stops = 0 => (FrameWritten <=> sinceFrame = stops)]_vars

\* A frame is due picture_steps steps into an epoch, more than picture_steps
\* steps after the previous frame.
C5_Witness ==
  /\ pc = "picture"
  /\ sinceMark = stops
  /\ sinceFrame > stops
  /\ i = stops

\* C6: in every reachable state the table lookup of step() does not fail:
\* the index it computes is less than the length of the table.
C6_LookupInBounds ==
  position < Len(tape)
    => LookupIndex(states, tape[position + 1], state) < Len(table)

\* C7: the table has exactly states*symbols entries (the integer product),
\* each with next_state < states, write_symbol < symbols and a direction.
C7_TableShape ==
  /\ Len(table) = states * symbols
  /\ \A k \in 1..Len(table) :
       /\ table[k][1] \in 0..(states - 1)
       /\ table[k][2] \in 0..(symbols - 1)
       /\ table[k][3] \in Direction

\* C8: every tape cell holds a value in [0, symbols), the machine state is
\* in [0, states), and every tape cell indexes a palette of at least
\* 'symbols' colors.
C8_SymbolsAndStateInRange ==
  /\ \A k \in 1..Len(tape) : tape[k] \in 0..(symbols - 1)
  /\ state \in 0..(states - 1)
  /\ symbols <= PaletteLen => \A k \in 1..Len(tape) : tape[k] < PaletteLen

\* A frame is about to be written from a tape that holds the largest symbol,
\* in an epoch that follows a driver reset.
C8_Witness ==
  /\ pc = "picture" /\ PictureDue(i, stops)
  /\ symbols > 1
  /\ \E k \in 1..Len(tape) : tape[k] = symbols - 1
  /\ sinceFrame > i

\* A table that writes back the symbol it reads, for every state.
WritesSymbolRead ==
  \A k \in 1..Len(table) : table[k][2] = (k - 1) \div states

\* A table that never writes the symbol it reads.
WritesOtherSymbol ==
  \A k \in 1..Len(table) : table[k][2] # (k - 1) \div states

\* C9: step() returns true if and only if the symbol it writes differs from
\* the symbol it read at the head, if and only if the tape after the step
\* differs from the tape before it; a table that always writes the symbol
\* read makes every step return false, one that never does makes every step
\* return true.
C9_ChangedIffTapeDiffers ==
  [][StepTaken
       => /\ ret' <=> tape'[position + 1] # tape[position + 1]
          /\ ret' <=> tape' # tape
          /\ WritesSymbolRead => ~ret'
          /\ WritesOtherSymbol => ret']_vars

\* A step has returned true under a two-symbol table that never writes the
\* symbol it reads, after an earlier step of the epoch.
C9_Witness ==
  /\ pc = "picture" /\ ret /\ i >= 2
  /\ symbols = 2 /\ WritesOtherSymbol

\* The direction of the table entry that step() reads in the current state.
DirectionRead ==
  table[LookupIndex(states, tape[position + 1], state) + 1][3]

\* C10: step() moves the head to the toroidal neighbour in the direction of
\* the entry read: NORTH (x, (y-1) mod height), SOUTH (x, (y+1) mod height),
\* EAST ((x+1) mod width, y), WEST ((x-1) mod width, y), the new position
\* being y'*width + x'.
C10_ToroidalMove ==
  [][StepTaken
       => LET x == position % width
              y == position \div width
              d == DirectionRead
              nx == position' % width
              ny == position' \div width
          IN  /\ position' = ny * width + nx
              /\ d = "NORTH" => nx = x /\ ny = (y - 1 + height) % height
              /\ d = "SOUTH" => nx = x /\ ny = (y + 1) % height
              /\ d = "EAST" => ny = y /\ nx = (x + 1) % width
              /\ d = "WEST" => ny = y /\ nx = (x - 1 + width) % width
              /\ (d = "NORTH" /\ y = 0) => ny = height - 1
              /\ (d = "SOUTH" /\ y = height - 1) => ny = 0
              /\ (d = "WEST" /\ x = 0) => nx = width - 1
              /\ (d = "EAST" /\ x = width - 1) => nx = 0]_vars

\* The head has moved WEST onto the last column of the bottom row of a grid
\* three cells wide: a wrap from x = 0.
C10_Witness ==
  /\ pc = "picture"
  /\ width = 3 /\ height = 2
  /\ moved = "WEST"
  /\ position = 5

\* C11: a step() changes at most the tape cell at the pre-step head, the
\* position and the state: every other tape cell, the table, width, height,
\* states and symbols are unchanged; and the table changes only in a step of
\* the driver that performs a reset.
C11_StepFrame ==
  /\ [][StepTaken
          => /\ Len(tape') = Len(tape)
             /\ \A k \in 1..Len(tape) :
                  k # position + 1 => tape'[k] = tape[k]
             /\ table' = table
             /\ width' = width /\ height' = height
             /\ states' = states /\ symbols' = symbols]_vars
  /\ [][table' # table => ResetTaken]_vars

\* A step has changed the cell under the head on a tape that holds another
\* non-zero cell.
C11_Witness ==
  /\ pc = "picture" /\ ret
  /\ Cardinality({k \in 1..Len(tape) : tape[k] # 0}) >= 2

\* C12: write_image fills the buffer with exactly width*height*3 bytes, the
\* bytes at offsets 3k, 3k+1, 3k+2 being the blue, green and red channel of
\* palette[tape[k]]; the frame depends only on the tape and the palette, so
\* no byte of an earlier frame is left in the buffer.
C12_FrameBytes ==
  [][FrameWritten
       => /\ Len(image') = width * height * 3
          /\ \A k \in 0..(Len(tape) - 1) :
               /\ image'[3 * k + 1] = Palette[tape[k + 1] + 1][3]
               /\ image'[3 * k + 2] = Palette[tape[k + 1] + 1][2]
               /\ image'[3 * k + 3] = Palette[tape[k + 1] + 1][1]]_vars

\* A frame is due while the buffer still holds a red pixel of an earlier
\* frame at a cell that is now 0, and the tape holds a cell that is 1.
C12_Witness ==
  /\ pc = "picture" /\ PictureDue(i, stops)
  /\ \E k \in 1..Len(tape) : tape[k] = 0 /\ image[3 * k] = 255
  /\ \E k \in 1..Len(tape) : tape[k] = 1

\* C13: right after TuringMachine::new the tape is all zero, and right
\* after every reset by the driver loop every tape cell is 0, the step
\* counter is 0 and the table is a generated one.
C13_ResetZeroesTape ==
  /\ Len(tape) = width * height
  /\ \A k \in 1..Len(tape) : tape[k] = 0
  /\ [][ResetTaken
          => /\ Len(tape') = width * height
             /\ \A k \in 1..Len(tape') : tape'[k] = 0
             /\ i' = 0
             /\ table' \in RandomTable(states, symbols)]_vars

\* A budget reset has just zeroed a tape that steps had changed, with the
\* head away from cell 0.
C13_Witness ==
  /\ pc = "step" /\ i = 0 /\ sinceMark = 0
  /\ change /\ ~changedSinceReset
  /\ position # 0
  /\ \A k \in 1..Len(tape) : tape[k] = 0

\* C17: once a write_image call has failed the process has terminated: no
\* step(), reset or frame follows, and the write is not made again.
C17_SinkErrorIsFatal ==
  /\ [](sinkError => pc = "failed")
  /\ [][pc # "failed"]_vars

\* A frame write has failed after at least two steps of the epoch.
C17_Witness ==
  /\ pc = "failed" /\ sinkError
  /\ i >= 2

\* The (state, symbol) pairs of the machine.
Pairs == (0..(states - 1)) \X (0..(symbols - 1))

\* The table index step() computes for a (state, symbol) pair.
PairIndex(p) == LookupIndex(states, p[2], p[1])

\* C19: the index curr_symbol*states + state maps the (state, symbol) pairs
\* one-to-one onto [0, states*symbols), which are the indices of the table
\* built by random_table: no two pairs share an entry and every entry is
\* addressed by some pair.
C19_IndexBijection ==
  /\ \A p \in Pairs : \A q \in Pairs : PairIndex(p) = PairIndex(q) => p = q
  /\ {PairIndex(p) : p \in Pairs} = 0..(states * symbols - 1)
  /\ {PairIndex(p) : p \in Pairs} = 0..(Len(table) - 1)

\* C20: whenever no step() since the most recent reset (or construction)
\* has returned true every tape cell is 0, and the frame written at a
\* no-change reset consists of the color palette[0] only.
C20_NoChangeMeansBlank ==
  /\ [](~changedSinceReset => \A k \in 1..Len(tape) : tape[k] = 0)
  /\ [][(FrameWritten /\ ResetTaken)
          => /\ Len(image') = width * height * 3
             /\ \A n \in 1..Len(image') :
                  image'[n] = Palette[1][3 - ((n - 1) % 3)]]_vars

\* A no-change reset has just been taken, its frame written, after a step
\* that moved the head away from cell 0 of a two-symbol machine.
C20_Witness ==
  /\ pc = "budget" /\ i = 0 /\ sinceFrame = 0
  /\ ~change /\ ~ret
  /\ symbols = 2
  /\ position # 0

\* C14: on a grid of one row and W columns with one state, two symbols and
\* the table that maps both symbols to (state 0, write 1, EAST), started on
\* an all-zero tape at position 0, step k (1 <= k <= W) writes tape[k-1] = 1,
\* returns true and moves to position k mod W; after W steps the tape is all
\* 1 and the position is 0, and every later step returns false.
C14_Scenario ==
  /\ position = i % width
  /\ Len(tape) = width
  /\ \A k \in 1..width : tape[k] = IF k <= i THEN 1 ELSE 0
  /\ pc = "picture" => (ret <=> i <= width)
  /\ pc \in {"step", "picture", "budget"}

\* The fifth step on the grid of four columns: the tape is all 1, the step
\* has returned false and the head is on the second cell.
C14_Witness ==
  /\ width = 4 /\ i = 5 /\ pc = "picture"
  /\ ~ret
  /\ tape = <<1, 1, 1, 1>>
  /\ position = 1

\* A configuration with a zero-valued width, height, states or symbols.
ZeroConfig == width = 0 \/ height = 0 \/ states = 0 \/ cfgSymbols = 0

\* C15: a configuration with a zero-valued width, height, states or symbols
\* aborts the program at startup: the loop is not entered, no step() is
\* executed and no frame is emitted.
C15_ZeroConfigAbortsAtStartup ==
  ZeroConfig => pc \in {"palette", "palette_failed"}

\* C16: when the configured symbol count exceeds the palette's 10 colors the
\* program aborts in load_palette: the loop is not entered, no step() is
\* executed and no frame is written; and load_palette is called once, before
\* the loop, never again.
C16_PaletteTooSmallAborts ==
  /\ [](cfgSymbols > PaletteLen
         => /\ pc \in {"palette", "palette_failed"}
            /\ i = 0 /\ sinceFrame = 0
            /\ tape = ZeroTape(width * height)
            /\ image = ZeroImage(width * height))
  /\ [][(pc = "palette" /\ cfgSymbols > PaletteLen)
          => pc' = "palette_failed"]_vars
  /\ [][pc' # "palette"]_vars

\* load_palette has failed for a configuration whose symbol count, 257, is
\* 1 once cast to u8, on a grid of one cell.
C16_Witness ==
  /\ pc = "palette_failed"
  /\ cfgSymbols = 257 /\ symbols = 1
  /\ states >= 1 /\ width >= 1 /\ height >= 1

====
